---- MODULE Spec2Model ----
(***************************************************************************)
(* Model of the attendance check-in server, NewTestServerApplication.py.   *)
(*                                                                         *)
(* Time is counted in minutes of the fixed timezone (Europe/Bucharest)     *)
(* since 00:00 of day 0; a calendar date is a day number, and the          *)
(* ISO text of a date orders as the day number does.  Every HTTP request   *)
(* runs in a worker thread with its own database connection; a statement   *)
(* of SQLite is atomic, and a transaction becomes visible at its commit.   *)
(***************************************************************************)
EXTENDS Integers, Sequences, FiniteSets, TLC

(* ---------------------------- bounds ----------------------------------- *)
MaxDay == 1                      \* days 0..MaxDay are simulated
CheckinThreads == {"c1", "c2"}   \* worker threads that serve POST /checkin
GcThreads == {"g1"}              \* worker threads that serve GET /run_garbage_collector
Threads == CheckinThreads \cup GcThreads

(* ---------------------- constants of the program ----------------------- *)
MinutesPerDay == 1440
MAX_ROWS == 2                    \* garbage_collector: row budget (6000 in the source, scaled)
JitterMin == 0 - 20              \* random.randint(-20, 40)
JitterMax == 40
DefaultWorkHours == 8            \* .get('work_hours', 8)

Days == 0..MaxDay
NoHost == ""                     \* a request without a hostname
RosterHosts == {"h1", "h2"}
Hosts == RosterHosts \cup {"hx"} \* hx is not on the roster

\* The roster as load_authorized_hosts builds it: hostname -> name, work_hours.
AUTHORIZED_HOSTS ==
    [h \in RosterHosts |->
        IF h = "h1" THEN [name |-> "Ana", work_hours |-> 8]
                    ELSE [name |-> "Bob", work_hours |-> 1]]

\* The jitter values the simulation draws in the server model.
JitterSample == {JitterMin}

VARIABLES
    now,        \* the clock, minutes since day 0 00:00
    checkins,   \* the table checkins: a set of rows
    files,      \* the output directory: file name -> content
    pc,         \* per thread: where its request handler stands
    req,        \* per thread: the locals of the running handler
    last,       \* the answer of the request that finished last, and its thread
    recorded,   \* history: per (host, date), the 200 answers since the date was last pruned
    est,        \* the checkout estimator taken alone: its inputs and results
    outbox,     \* the dates whose report the email transport has accepted
    sched,      \* the schedulers: the day each job last fired, the date of a failed email
    conns,      \* the ledger connections that are open, with the operation that opened each
    boot,       \* the start of the process: its configuration, its stage, what has run so far
    mail,       \* the email operation that is running: its date, its caller, what the transport will do
    layout,     \* the renderer taken alone: the page, the height of the pen, what the page carries so far
    granted     \* history: per (host, date), the 200 answers ever given, prunes or not

vars == <<now, checkins, files, pc, req, last, recorded, est, outbox, sched, conns, boot, mail, layout, granted>>

(* ------------------------------ clock ---------------------------------- *)
\* get_current_time_in_romania().isoformat(), parsed back by fromisoformat
get_current_time_in_romania == now

\* datetime.now(romania_tz).date()
DateOf(t) == t \div MinutesPerDay
get_today_in_romania == DateOf(now)

\* strftime('%H:%M:%S'): the time of day of an instant
TimeOnly(t) == t % MinutesPerDay

(* ------------------------------ ledger --------------------------------- *)
Row(h, ci, d, co) ==
    [hostname |-> h, checkin_time |-> ci, date |-> d, checkout_time |-> co]

RowsOf(table, h, d) == {r \in table : r.hostname = h /\ r.date = d}
RowsOfDate(table, d) == {r \in table : r.date = d}

\* INSERT OR IGNORE under PRIMARY KEY (hostname, date)
InsertPlain(table, row) == table \cup {row}
InsertOrReplace(table, row) ==
    (table \ RowsOf(table, row.hostname, row.date)) \cup {row}
InsertOrIgnore(table, row) ==
    IF RowsOf(table, row.hostname, row.date) # {} THEN table
    ELSE table \cup {row}

\* save_checkin: the checkout estimate
total_minutes(norma, random_minutes) == (norma * 60) + random_minutes
hours_to_add(norma, random_minutes) == total_minutes(norma, random_minutes) \div 60
minutes_to_add(norma, random_minutes) == total_minutes(norma, random_minutes) % 60
EstimateCheckoutHoursOnly(checkin_dt, norma, random_minutes) ==
    checkin_dt + hours_to_add(norma, random_minutes) * 60
EstimateCheckout(checkin_dt, norma, random_minutes) ==
    checkin_dt + hours_to_add(norma, random_minutes) * 60
               + minutes_to_add(norma, random_minutes)

Norma(h) ==
    IF h \in DOMAIN AUTHORIZED_HOSTS THEN AUTHORIZED_HOSTS[h].work_hours
    ELSE DefaultWorkHours

(* ------------------------------ files ---------------------------------- *)
NoFile == [kind |-> "none"]
\* f"{pdf_dir}/{report_date_str}.pdf"
PdfFilename(d) == <<"", d>>
\* os.path.join(output_dir, f"checkins_{date}.pdf")
GcPdfPath(d) == <<"checkins_", d>>
\* The dates a report can be asked for: the simulated days and the day before
FileDays == (0 - 1)..MaxDay
FileNames == {PdfFilename(d) : d \in FileDays} \cup {GcPdfPath(d) : d \in FileDays}

(* ----------------------------- threads --------------------------------- *)
NoReq == [op |-> "none"]
NoAnswer == [op |-> "none"]
NoEst == [stage |-> "none"]
\* No job has fired yet, no scheduled email has failed; failed_before is what
\* failed was when the email job last fired
NoJobs ==
    [report |-> 0 - 1, email |-> 0 - 1, gc |-> 0 - 1, failed |-> {}, failed_before |-> {}]

\* The start of the process is not looked at
NoBoot == [stage |-> "none"]

\* No email operation is running
NoMail == [stage |-> "idle"]

\* No page is being laid out
NoLayout == [stage |-> "none"]
NoGrants == [k \in Hosts \X Days |-> 0]

Init ==
    /\ now = 480
    /\ checkins = {}
    /\ files = [f \in FileNames |-> NoFile]
    /\ pc = [t \in Threads |-> "idle"]
    /\ req = [t \in Threads |-> NoReq]
    /\ last = NoAnswer
    /\ recorded = [k \in Hosts \X Days |-> 0]
    /\ est = NoEst
    /\ outbox = {}
    /\ sched = NoJobs
    /\ conns = {}
    /\ boot = NoBoot
    /\ mail = NoMail
    /\ layout = NoLayout
    /\ granted = NoGrants

\* The clock advances by a day; it never runs backwards.
Tick ==
    /\ DateOf(now + MinutesPerDay) <= MaxDay
    /\ now' = now + MinutesPerDay
    /\ UNCHANGED <<checkins, files, pc, req, last, recorded, est, outbox, sched, conns, boot, mail, layout, granted>>

Finish(t, answer) ==
    /\ pc' = [pc EXCEPT ![t] = "idle"]
    /\ req' = [req EXCEPT ![t] = NoReq]
    /\ last' = answer

(* --------------------------- POST /checkin ----------------------------- *)
\* fresh: the ledger had no row for the host and the day when the request came in
\* jsonify({'status': ...}), code: the answers checkin() builds
StatusOf(code) ==
    IF code = 200 THEN "success" ELSE IF code = 208 THEN "info" ELSE "error"

CheckinAnswer(code, fresh) ==
    [op |-> "checkin", code |-> code, status |-> StatusOf(code), fresh |-> fresh]

\* hostname not in AUTHORIZED_HOSTS
UnauthorizedNever(h) == FALSE
Unauthorized(h) == h \notin DOMAIN AUTHORIZED_HOSTS

\* checkin(): up to the call of save_checkin
CheckinReceive(t, h) ==
    /\ pc[t] = "idle"
    /\ IF h = NoHost
       THEN Finish(t, CheckinAnswer(400, FALSE))
       ELSE IF Unauthorized(h)
       THEN Finish(t, CheckinAnswer(403, FALSE))
       ELSE /\ pc' = [pc EXCEPT ![t] = "save"]
            /\ req' = [req EXCEPT ![t] =
                          [op |-> "checkin", hostname |-> h,
                           current_time |-> get_current_time_in_romania,
                           fresh |-> RowsOf(checkins, h, get_today_in_romania) = {}]]
            /\ UNCHANGED last
    /\ UNCHANGED <<now, checkins, files, recorded, est, outbox, sched, conns, boot, mail, layout, granted>>

\* conn.total_changes of the request's own connection after the INSERT
total_changes_shared(before, after) == 1
total_changes(before, after) == IF after # before THEN 1 ELSE 0

\* save_checkin() and the answer checkin() builds from its result
SaveCheckin(t) ==
    /\ pc[t] = "save"
    /\ \E random_minutes \in JitterSample :
         LET hostname == req[t].hostname
             today == get_today_in_romania
             checkin_dt == req[t].current_time
             checkout_time == EstimateCheckout(checkin_dt, Norma(hostname), random_minutes)
             after == InsertOrIgnore(checkins,
                                     Row(hostname, checkin_dt, today, checkout_time))
         IN  /\ checkins' = after
             /\ IF total_changes(checkins, after) > 0
                THEN /\ Finish(t, CheckinAnswer(200, req[t].fresh))
                     /\ recorded' = [recorded EXCEPT ![<<hostname, today>>] = @ + 1]
                ELSE /\ Finish(t, CheckinAnswer(208, req[t].fresh))
                     /\ UNCHANGED recorded
    /\ UNCHANGED <<now, files, est, outbox, sched, conns, boot, mail, layout, granted>>

(* ---------------------- GET /run_garbage_collector --------------------- *)
RECURSIVE SortedDatesDesc(_)
SortedDatesDesc(ds) ==
    IF ds = {} THEN <<>>
    ELSE LET m == CHOOSE d \in ds : \A e \in ds : d >= e
         IN  <<m>> \o SortedDatesDesc(ds \ {m})

RECURSIVE SortedDatesOf(_)
\* SELECT DISTINCT date ... ORDER BY date ASC, for a set of dates
SortedDatesOf(ds) ==
    IF ds = {} THEN <<>>
    ELSE LET m == CHOOSE d \in ds : \A e \in ds : d <= e
         IN  <<m>> \o SortedDatesOf(ds \ {m})

SortedDates(table) == SortedDatesOf({r.date : r \in table})

SeqToSet(s) == {s[i] : i \in 1..Len(s)}

GcAnswer(code, dates) ==
    [op |-> "gc", code |-> code, dates_deleted |-> Len(dates)]

\* if count <= MAX_ROWS: nothing to do
WithinBudgetStrict(count) == count < MAX_ROWS
WithinBudget(count) == count <= MAX_ROWS

\* SELECT COUNT(*) and the early return
GcCount(t) ==
    /\ pc[t] = "idle"
    /\ LET count == Cardinality(checkins)
       IN  IF WithinBudget(count)
           THEN Finish(t, GcAnswer(200, <<>>))
           ELSE /\ pc' = [pc EXCEPT ![t] = "gc_dates"]
                /\ req' = [req EXCEPT ![t] =
                              [op |-> "gc", count |-> count,
                               rows_to_delete |-> count - MAX_ROWS,
                               dates |-> <<>>, i |-> 1, counts |-> <<>>,
                               rows_deleted |-> 0, dates_to_delete |-> <<>>,
                               uncommitted |-> {}]]
                /\ UNCHANGED last
    /\ UNCHANGED <<now, checkins, files, recorded, est, outbox, sched, conns, boot, mail, layout, granted>>

\* SELECT DISTINCT date FROM checkins ORDER BY date ASC
GcDates(t) ==
    /\ pc[t] = "gc_dates"
    /\ LET dates == SortedDates(checkins)
       IN  /\ req' = [req EXCEPT ![t].dates = dates]
           /\ pc' = [pc EXCEPT ![t] = IF dates = <<>> THEN "gc_delete" ELSE "gc_walk"]
    /\ UNCHANGED <<now, checkins, files, last, recorded, est, outbox, sched, conns, boot, mail, layout, granted>>

\* The test of the walk: does the walk go on after this date?
WalkOnAlways(rows_deleted, date_rows, rows_to_delete) == TRUE
WalkOn(rows_deleted, date_rows, rows_to_delete) ==
    rows_deleted + date_rows <= rows_to_delete

\* Both branches of the test append the date: the walk takes the date it
\* stops at
TakesDateOnlyWhenGoingOn(goes_on) == goes_on
TakesDate(goes_on) == TRUE

\* One iteration of "for date in dates"
GcWalk(t) ==
    /\ pc[t] = "gc_walk"
    /\ LET r == req[t]
           date == r.dates[r.i]
           date_rows == Cardinality(RowsOfDate(checkins, date))
           goes_on == WalkOn(r.rows_deleted, date_rows, r.rows_to_delete)
       IN  /\ req' = IF TakesDate(goes_on)
                     THEN [req EXCEPT ![t].dates_to_delete = Append(@, date),
                                      ![t].rows_deleted = @ + date_rows,
                                      ![t].counts = Append(@, date_rows),
                                      ![t].i = @ + 1]
                     ELSE [req EXCEPT ![t].i = @ + 1]
           /\ pc' = [pc EXCEPT ![t] =
                        IF goes_on /\ r.i < Len(r.dates) THEN "gc_walk" ELSE "gc_delete"]
    /\ UNCHANGED <<now, checkins, files, last, recorded, est, outbox, sched, conns, boot, mail, layout, granted>>

\* The file the collector removes for a date
GcRemovedPath(d) == GcPdfPath(d)

\* The DELETE statements, the removal of the files, and the commit
GcDelete(t) ==
    /\ pc[t] = "gc_delete"
    /\ LET r == req[t]
           victims == SeqToSet(r.dates_to_delete)
       IN  IF r.dates_to_delete = <<>>
           THEN /\ Finish(t, GcAnswer(200, <<>>))
                /\ UNCHANGED <<checkins, files, recorded>>
           ELSE /\ checkins' = {row \in checkins : row.date \notin victims}
                /\ files' = [f \in FileNames |->
                                IF \E d \in victims : f = GcRemovedPath(d)
                                THEN NoFile ELSE files[f]]
                /\ recorded' = [k \in Hosts \X Days |->
                                   IF k[2] \in victims THEN 0 ELSE recorded[k]]
                /\ Finish(t, GcAnswer(200, r.dates_to_delete))
    /\ UNCHANGED <<now, est, outbox, sched, conns, boot, mail, layout, granted>>

(* ------------------ the pass as a transaction, in steps ---------------- *)
\* One "DELETE FROM checkins WHERE date = ?" of the loop and the removal of
\* the date's file; the rows are gone for the pass's connection only
GcDeleteDate(t) ==
    /\ pc[t] = "gc_delete"
    /\ Cardinality(req[t].uncommitted) < Len(req[t].dates_to_delete)
    /\ LET date == req[t].dates_to_delete[Cardinality(req[t].uncommitted) + 1]
       IN  /\ req' = [req EXCEPT ![t].uncommitted = @ \cup {date}]
           /\ files' = [files EXCEPT ![GcRemovedPath(date)] = NoFile]
    /\ UNCHANGED <<now, checkins, pc, last, recorded, est, outbox, sched, conns, boot, mail, layout, granted>>

\* conn.commit(): the DELETEs of the pass reach the ledger together
GcCommit(t) ==
    /\ pc[t] = "gc_delete"
    /\ Cardinality(req[t].uncommitted) = Len(req[t].dates_to_delete)
    /\ checkins' = {row \in checkins : row.date \notin req[t].uncommitted}
    /\ recorded' = [k \in Hosts \X Days |->
                       IF k[2] \in req[t].uncommitted THEN 0 ELSE recorded[k]]
    /\ Finish(t, GcAnswer(200, req[t].dates_to_delete))
    /\ UNCHANGED <<now, files, est, outbox, sched, conns, boot, mail, layout, granted>>

\* "with get_db_connection() as conn:" left by an exception: the connection
\* rolls back, and the ledger is what it was before the pass's DELETEs
RollbackKeepsDeletes(table, uncommitted) == {row \in table : row.date \notin uncommitted}
Rollback(table, uncommitted) == table

\* The answer to a pass that raised after it had run DELETEs for some dates
GcAbortAnswer(attempted) ==
    [op |-> "gc", code |-> 500, dates_deleted |-> 0, attempted |-> attempted]

\* A statement or a file removal of the DELETE loop raises: the pass is left
\* through its except clause, the files removed so far stay removed
GcAbort(t) ==
    /\ pc[t] = "gc_delete"
    /\ req[t].dates_to_delete # <<>>
    /\ checkins' = Rollback(checkins, req[t].uncommitted)
    /\ recorded' = [k \in Hosts \X Days |->
                       IF RowsOf(checkins', k[1], k[2]) = {} THEN 0 ELSE recorded[k]]
    /\ Finish(t, GcAbortAnswer(Cardinality(req[t].uncommitted)))
    /\ UNCHANGED <<now, files, est, outbox, sched, conns, boot, mail, layout, granted>>

\* A pass holds the write lock of the ledger from its first DELETE to its commit
WriteLocked == \E t \in GcThreads : pc[t] = "gc_delete" /\ req[t].uncommitted # {}

\* The rows a SELECT on another connection reads: the committed ledger
ReadTableDirty ==
    {row \in checkins :
        \A t \in GcThreads : pc[t] = "gc_delete" => row.date \notin req[t].uncommitted}
ReadTable == checkins

(* -------------------------- GET /generate_pdf -------------------------- *)
RECURSIVE SetToSeq(_)
\* The order in which a dict or a set is iterated: unspecified, but fixed
SetToSeq(S) ==
    IF S = {} THEN <<>>
    ELSE LET x == CHOOSE y \in S : TRUE IN <<x>> \o SetToSeq(S \ {x})

\* load_daily_checkins(date).get(date, {}): hostname -> times
load_daily_checkins_today(table, d) ==
    [h \in {r.hostname : r \in RowsOfDate(table, get_today_in_romania)} |->
        LET r == CHOOSE x \in RowsOf(table, h, get_today_in_romania) : TRUE
        IN  [checkin_time |-> r.checkin_time, checkout_time |-> r.checkout_time]]
load_daily_checkins(table, d) ==
    [h \in {r.hostname : r \in RowsOfDate(table, d)} |->
        LET r == CHOOSE x \in RowsOf(table, h, d) : TRUE
        IN  [checkin_time |-> r.checkin_time, checkout_time |-> r.checkout_time]]

NameOf(h) ==
    IF h \in DOMAIN AUTHORIZED_HOSTS THEN AUTHORIZED_HOSTS[h].name ELSE "Unknown"

\* absent_hosts = set(AUTHORIZED_HOSTS.keys()) - set(checked_in.keys())
AbsentAll(checked_in) == DOMAIN AUTHORIZED_HOSTS
AbsentHosts(checked_in) == (DOMAIN AUTHORIZED_HOSTS) \ (DOMAIN checked_in)

PresentRow(h, times) ==
    [hostname |-> h, name |-> NameOf(h),
     checkin |-> TimeOnly(times.checkin_time),
     checkout |-> TimeOnly(times.checkout_time)]

AbsentRow(h) == [hostname |-> h, name |-> NameOf(h)]

\* The rows generate_pdf_for_date draws, section by section
RenderDocument(table, d) ==
    LET checked_in == load_daily_checkins(table, d)
        absent_hosts == AbsentHosts(checked_in)
        present_order == SetToSeq(DOMAIN checked_in)
        absent_order == SetToSeq(absent_hosts)
    IN  [kind |-> "pdf", date |-> d,
         present |-> [i \in 1..Len(present_order) |->
                         PresentRow(present_order[i], checked_in[present_order[i]])],
         absent |-> [i \in 1..Len(absent_order) |-> AbsentRow(absent_order[i])]]

\* again: the request before this one was a render of the same date
RenderAnswer(code, d, again) ==
    [op |-> "render", code |-> code, date |-> d, again |-> again]

\* generate_pdf_endpoint with ?date=d
GeneratePdf(d) ==
    /\ files' = [files EXCEPT ![PdfFilename(d)] = RenderDocument(ReadTable, d)]
    /\ last' = RenderAnswer(200, d, last.op = "render" /\ last.date = d)
    /\ UNCHANGED <<now, checkins, pc, req, recorded, est, outbox, sched, conns, boot, mail, layout, granted>>

\* A check-in request served with no other step in between
CheckinAtomic(t, h) ==
    /\ pc[t] = "idle"
    /\ IF h = NoHost
       THEN /\ last' = CheckinAnswer(400, FALSE)
            /\ UNCHANGED <<checkins, recorded>>
       ELSE IF Unauthorized(h)
       THEN /\ last' = CheckinAnswer(403, FALSE)
            /\ UNCHANGED <<checkins, recorded>>
       ELSE \E random_minutes \in JitterSample :
              LET today == get_today_in_romania
                  checkin_dt == get_current_time_in_romania
                  checkout_time == EstimateCheckout(checkin_dt, Norma(h), random_minutes)
                  fresh == RowsOf(checkins, h, today) = {}
                  after == InsertOrIgnore(checkins, Row(h, checkin_dt, today, checkout_time))
              IN  /\ checkins' = after
                  /\ IF total_changes(checkins, after) > 0
                     THEN /\ last' = CheckinAnswer(200, fresh)
                          /\ recorded' = [recorded EXCEPT ![<<h, today>>] = @ + 1]
                     ELSE /\ last' = CheckinAnswer(208, fresh)
                          /\ UNCHANGED recorded
    /\ UNCHANGED <<now, files, pc, req, est, outbox, sched, conns, boot, mail, layout, granted>>

(* ------------------------- the server, requests ------------------------ *)
Next ==
    \/ Tick
    \/ \E t \in CheckinThreads, h \in Hosts \cup {NoHost} : CheckinReceive(t, h)
    \/ \E t \in CheckinThreads : SaveCheckin(t)
    \/ \E t \in GcThreads : GcCount(t)
    \/ \E t \in GcThreads : GcDates(t)
    \/ \E t \in GcThreads : GcWalk(t)
    \/ \E t \in GcThreads : GcDelete(t)

Spec == Init /\ [][Next]_vars

(* ------------------ the server, reports and retention ------------------ *)
NextReport ==
    \/ Tick
    \/ \E t \in CheckinThreads, h \in Hosts \cup {NoHost} : CheckinAtomic(t, h)
    \/ \E t \in GcThreads : GcCount(t)
    \/ \E t \in GcThreads : GcDates(t)
    \/ \E t \in GcThreads : GcWalk(t)
    \/ \E t \in GcThreads : GcDelete(t)
    \/ \E d \in Days : GeneratePdf(d)

SpecReport == Init /\ [][NextReport]_vars

(* --------------------- the checkout estimator alone -------------------- *)
MaxNorma == 3                    \* expected hours 1..MaxNorma are tried
CheckinInstants == {0, 480, 1430, 2879}

InitEstimate ==
    /\ now = 480
    /\ checkins = {}
    /\ files = [f \in FileNames |-> NoFile]
    /\ pc = [t \in Threads |-> "idle"]
    /\ req = [t \in Threads |-> NoReq]
    /\ last = NoAnswer
    /\ recorded = [k \in Hosts \X Days |-> 0]
    /\ outbox = {}
    /\ sched = NoJobs
    /\ conns = {}
    /\ boot = NoBoot
    /\ mail = NoMail
    /\ layout = NoLayout
    /\ granted = NoGrants
    /\ \E ci \in CheckinInstants, norma \in 1..MaxNorma, rm \in JitterMin..JitterMax :
          est = [stage |-> "input", checkin_dt |-> ci, norma |-> norma,
                 random_minutes |-> rm]

\* The estimate of save_checkin on the inputs drawn
Estimate ==
    /\ est.stage = "input"
    /\ est' = [stage |-> "done", checkin_dt |-> est.checkin_dt, norma |-> est.norma,
               random_minutes |-> est.random_minutes,
               hours_to_add |-> hours_to_add(est.norma, est.random_minutes),
               minutes_to_add |-> minutes_to_add(est.norma, est.random_minutes),
               checkout_dt |-> EstimateCheckout(est.checkin_dt, est.norma,
                                                est.random_minutes)]
    /\ UNCHANGED <<now, checkins, files, pc, req, last, recorded, outbox, sched, conns, boot, mail, layout, granted>>

NextEstimate == Estimate

SpecEstimate == InitEstimate /\ [][NextEstimate]_vars

(* --------------------------- the schedulers ---------------------------- *)
\* The thread a BackgroundScheduler runs its jobs on
SchedulerThread == "scheduler"

\* get_db_connection() reads flask's g: outside an application context, which
\* only the thread of a request has, it raises instead of returning
HasAppContextAlways(thread) == TRUE
HasAppContext(thread) == thread # SchedulerThread

RECURSIVE WalkDates(_, _, _, _)
\* "for date in dates" as a whole: the dates_to_delete it builds
WalkDates(table, dates, rows_deleted, rows_to_delete) ==
    IF dates = <<>> THEN <<>>
    ELSE LET date == Head(dates)
             date_rows == Cardinality(RowsOfDate(table, date))
         IN  IF WalkOn(rows_deleted, date_rows, rows_to_delete)
             THEN <<date>> \o WalkDates(table, Tail(dates), rows_deleted + date_rows,
                                        rows_to_delete)
             ELSE IF TakesDate(FALSE) THEN <<date>> ELSE <<>>

\* The dates a pass that runs alone on the table deletes
DatesToDelete(table) ==
    LET count == Cardinality(table)
    IN  IF WithinBudget(count) THEN <<>>
        ELSE WalkDates(table, SortedDates(table), 0, count - MAX_ROWS)

\* What a job leaves behind: its name, whether it returned or raised
JobAnswer(job, ok) == [op |-> "job", job |-> job, ok |-> ok]

\* A cron job fires once on each day
Due(job) == sched[job] < get_today_in_romania

\* garbage_scheduler's job: garbage_collector() on the scheduler's thread
RetentionJob ==
    /\ Due("gc")
    /\ sched' = [sched EXCEPT !.gc = get_today_in_romania]
    /\ IF HasAppContext(SchedulerThread)
       THEN LET victims == SeqToSet(DatesToDelete(checkins))
            IN  /\ checkins' = {row \in checkins : row.date \notin victims}
                /\ files' = [f \in FileNames |->
                                IF \E d \in victims : f = GcRemovedPath(d)
                                THEN NoFile ELSE files[f]]
                /\ recorded' = [k \in Hosts \X Days |->
                                   IF k[2] \in victims THEN 0 ELSE recorded[k]]
                /\ last' = JobAnswer("gc", TRUE)
       ELSE /\ last' = JobAnswer("gc", FALSE)
            /\ UNCHANGED <<checkins, files, recorded>>
    /\ UNCHANGED <<now, pc, req, est, outbox, conns, boot, mail, layout, granted>>

\* report_date = get_today_in_romania() - timedelta(days=1), in the renderer
DefaultReportDateToday == get_today_in_romania
DefaultReportDate == get_today_in_romania - 1

\* scheduler's job: generate_pdf(), the render with no date given
ReportJob ==
    /\ Due("report")
    /\ sched' = [sched EXCEPT !.report = get_today_in_romania]
    /\ files' = [files EXCEPT ![PdfFilename(DefaultReportDate)] =
                                  RenderDocument(checkins, DefaultReportDate)]
    /\ last' = JobAnswer("report", TRUE)
    /\ UNCHANGED <<now, checkins, pc, req, recorded, est, outbox, conns, boot, mail, layout, granted>>

(* ------------------------------ the email ------------------------------ *)
\* CONFIG['email_recipients'], split and stripped
Recipients == {"r1"}

\* What the transport does with a message: takes it, or raises
TransportOutcomes == {"sent", "failed"}

\* send_pdf_email(report_date): True when the file exists, there are
\* recipients and the transport took the message, False otherwise
send_pdf_email_unchecked(report_date, transport) == transport = "sent"
send_pdf_email(report_date, transport) ==
    /\ files[PdfFilename(report_date)] # NoFile
    /\ Recipients # {}
    /\ transport = "sent"

\* report_date = get_today_in_romania() - timedelta(days=1), in send_pdf_email
EmailDefaultDateFixed == 0 - 1
EmailDefaultDate == get_today_in_romania - 1

\* The date argument of a request: none, one that does not parse, or a date
DateArgs ==
    {[given |-> FALSE], [given |-> TRUE, valid |-> FALSE]}
        \cup {[given |-> TRUE, valid |-> TRUE, date |-> d] : d \in FileDays}

\* The code send_pdf_email_endpoint answers with
EmailCode(sent) == IF sent THEN 200 ELSE 500

EmailAnswer(code, report_date, sent) ==
    [op |-> "email", code |-> code, date |-> report_date, sent |-> sent]

\* The answer to a date that does not parse
EmailBadDate == [op |-> "email", code |-> 400, sent |-> FALSE]

\* POST /send_pdf_email
SendPdfEmail(arg, transport) ==
    /\ IF arg.given /\ ~arg.valid
       THEN /\ last' = EmailBadDate
            /\ UNCHANGED outbox
       ELSE LET report_date == IF arg.given THEN arg.date ELSE EmailDefaultDate
                sent == send_pdf_email(report_date, transport)
            IN  /\ outbox' = IF sent THEN outbox \cup {report_date} ELSE outbox
                /\ last' = EmailAnswer(EmailCode(sent), report_date, sent)
    /\ UNCHANGED <<now, checkins, files, pc, req, recorded, est, sched, conns, boot, mail, layout, granted>>

\* What the email job leaves behind: the date it tried, whether it was sent
EmailJobAnswer(report_date, sent) ==
    [op |-> "job", job |-> "email", ok |-> sent, date |-> report_date]

\* email_scheduler's job: send_pdf_email_task(), the email with no date given
EmailJob(transport) ==
    /\ Due("email")
    /\ LET report_date == EmailDefaultDate
           sent == send_pdf_email(report_date, transport)
       IN  /\ outbox' = IF sent THEN outbox \cup {report_date} ELSE outbox
           /\ sched' = [sched EXCEPT !.email = get_today_in_romania,
                                     !.failed = IF sent THEN {} ELSE {report_date},
                                     !.failed_before = sched.failed]
           /\ last' = EmailJobAnswer(report_date, sent)
    /\ UNCHANGED <<now, checkins, files, pc, req, recorded, est, conns, boot, mail, layout, granted>>

(* ---------------- the server, its jobs and the email ------------------- *)
NextJobs ==
    \/ Tick
    \/ \E t \in CheckinThreads, h \in RosterHosts : CheckinAtomic(t, h)
    \/ RetentionJob
    \/ ReportJob
    \/ \E transport \in TransportOutcomes : EmailJob(transport)
    \/ \E arg \in DateArgs, transport \in TransportOutcomes : SendPdfEmail(arg, transport)

SpecJobs == Init /\ [][NextJobs]_vars

(* ------------------- requests on a ledger that fails ------------------- *)
\* Where a request's use of the ledger raises sqlite3.Error: when the
\* connection is opened, or when a statement runs on it
StoreFaults == {"connect", "statement"}

\* except sqlite3.Error: return {} -- the rows the caller of a failed
\* load_daily_checkins goes on with
FailedLoad == {}

\* The answer to a request whose use of the ledger raised, with the place
\* where it raised
StoreErrorAnswer(answer, fault) ==
    [a \in DOMAIN answer \cup {"store_error"} |->
        IF a = "store_error" THEN fault ELSE answer[a]]

\* /checkin for a roster host when save_checkin raises sqlite3.Error
CheckinStoreError(h, fault) ==
    /\ ~Unauthorized(h)
    /\ last' = StoreErrorAnswer(
                   CheckinAnswer(500, RowsOf(checkins, h, get_today_in_romania) = {}), fault)
    /\ UNCHANGED <<now, checkins, files, pc, req, recorded, est, outbox, sched, conns, boot, mail, layout, granted>>

\* jsonify({'checkins': fresh_checkins.get(today, {})}), answered with 200
StatusAnswer(mapping) == [op |-> "status", code |-> 200, checkins |-> mapping]

\* GET /status
Status ==
    /\ last' = StatusAnswer(load_daily_checkins(ReadTable, get_today_in_romania))
    /\ UNCHANGED <<now, checkins, files, pc, req, recorded, est, outbox, sched, conns, boot, mail, layout, granted>>

\* GET /status when the ledger read raises sqlite3.Error
StatusStoreError(fault) ==
    /\ last' = StoreErrorAnswer(
                   StatusAnswer(load_daily_checkins(FailedLoad, get_today_in_romania)), fault)
    /\ UNCHANGED <<now, checkins, files, pc, req, recorded, est, outbox, sched, conns, boot, mail, layout, granted>>

\* GET /generate_pdf?date=d when the ledger read raises sqlite3.Error: a
\* failed connect ends generate_pdf_for_date with None, a failed SELECT is
\* caught inside load_daily_checkins and the render goes on
GeneratePdfStoreError(d, fault) ==
    /\ IF fault = "connect"
       THEN /\ last' = StoreErrorAnswer(RenderAnswer(500, d, FALSE), fault)
            /\ UNCHANGED files
       ELSE /\ files' = [files EXCEPT ![PdfFilename(d)] = RenderDocument(FailedLoad, d)]
            /\ last' = StoreErrorAnswer(RenderAnswer(200, d, FALSE), fault)
    /\ UNCHANGED <<now, checkins, pc, req, recorded, est, outbox, sched, conns, boot, mail, layout, granted>>

\* GET /run_garbage_collector when a statement of the pass raises: the
\* connection rolls back, the files removed so far stay removed
GcStoreError(fault) ==
    /\ \E removed \in SUBSET SeqToSet(DatesToDelete(checkins)) :
          /\ fault = "connect" => removed = {}
          /\ files' = [f \in FileNames |->
                          IF \E d \in removed : f = GcRemovedPath(d)
                          THEN NoFile ELSE files[f]]
    /\ last' = StoreErrorAnswer(GcAnswer(500, <<>>), fault)
    /\ UNCHANGED <<now, checkins, pc, req, recorded, est, outbox, sched, conns, boot, mail, layout, granted>>

NextFaults ==
    \/ Tick
    \/ \E t \in CheckinThreads, h \in RosterHosts : CheckinAtomic(t, h)
    \/ \E d \in Days : GeneratePdf(d)
    \/ Status
    \/ \E h \in RosterHosts, fault \in StoreFaults : CheckinStoreError(h, fault)
    \/ \E fault \in StoreFaults : StatusStoreError(fault)
    \/ \E d \in Days, fault \in StoreFaults : GeneratePdfStoreError(d, fault)
    \/ \E fault \in StoreFaults : GcStoreError(fault)

SpecFaults == Init /\ [][NextFaults]_vars

(* ------------- readers beside a pass that has not committed ------------ *)
\* A check-in while no pass holds the write lock
CheckinUnlocked(t, h) ==
    /\ ~WriteLocked
    /\ CheckinAtomic(t, h)

\* A check-in while a pass holds the write lock: the INSERT raises
\* sqlite3.OperationalError when the busy timeout runs out
CheckinLocked(h) ==
    /\ WriteLocked
    /\ CheckinStoreError(h, "statement")

NextSnapshot ==
    \/ Tick
    \/ \E t \in CheckinThreads, h \in RosterHosts : CheckinUnlocked(t, h)
    \/ \E h \in RosterHosts : CheckinLocked(h)
    \/ \E t \in GcThreads : GcCount(t)
    \/ \E t \in GcThreads : GcDates(t)
    \/ \E t \in GcThreads : GcWalk(t)
    \/ \E t \in GcThreads : GcDeleteDate(t)
    \/ \E t \in GcThreads : GcCommit(t)
    \/ \E t \in GcThreads : GcAbort(t)
    \/ \E d \in Days : GeneratePdf(d)
    \/ Status

SpecSnapshot == Init /\ [][NextSnapshot]_vars

(* ----------------------- the ledger connections ------------------------ *)
\* The operations that open a connection, and who runs them: requests run on
\* a request thread, the report job on the scheduler's thread
ConnOps == {"checkin", "status", "gc", "render"}
ConnOwners == Threads \cup {SchedulerThread}

\* get_db_connection() keeps the connection in g, get_scheduler_db_connection()
\* hands it to a local of generate_pdf_for_date
ScopeOf(op) == IF op = "render" THEN "local" ELSE "g"

\* How an operation ends
ExitPaths == {"return", "raise"}

Connection(t, op, completed) ==
    [owner |-> t, op |-> op, scope |-> ScopeOf(op), completed |-> completed]

\* An operation opens its connection; a scheduler thread runs renders only
Acquire(t, op) ==
    /\ t = SchedulerThread => op = "render"
    /\ \A c \in conns : c.owner = t => c.completed
    /\ conns' = conns \cup {Connection(t, op, FALSE)}
    /\ UNCHANGED <<now, checkins, files, pc, req, last, recorded, est, outbox, sched, boot, mail, layout, granted>>

\* close_db_connection, run when the application context of a request is torn
\* down, closes the connection kept in g; "with conn:" commits or rolls back
\* and closes nothing
ClosedOnExit(c) == c.scope = "g"

\* An operation ends, by return or by exception
Release(t, op, exit) ==
    /\ Connection(t, op, FALSE) \in conns
    /\ conns' = IF ClosedOnExit(Connection(t, op, FALSE))
                THEN conns \ {Connection(t, op, FALSE)}
                ELSE (conns \ {Connection(t, op, FALSE)}) \cup {Connection(t, op, TRUE)}
    /\ UNCHANGED <<now, checkins, files, pc, req, last, recorded, est, outbox, sched, boot, mail, layout, granted>>

\* The interpreter finalizes a connection object nothing refers to any more
Finalize(c) ==
    /\ c \in conns /\ c.completed
    /\ conns' = conns \ {c}
    /\ UNCHANGED <<now, checkins, files, pc, req, last, recorded, est, outbox, sched, boot, mail, layout, granted>>

NextConns ==
    \/ \E t \in ConnOwners, op \in ConnOps : Acquire(t, op)
    \/ \E t \in ConnOwners, op \in ConnOps, exit \in ExitPaths : Release(t, op, exit)
    \/ \E c \in conns : Finalize(c)

SpecConns == Init /\ [][NextConns]_vars

(* ----------------------- the start of the process ---------------------- *)
MaxDaysLen == 2                  \* weekday lists of 1..MaxDaysLen entries are tried

\* An entry of email_scheduler.day_of_week: the text of a number, or other text
DayToken(n) == [numeric |-> TRUE, value |-> n]
NotANumber == [numeric |-> FALSE]
DayTokens == {DayToken(n) : n \in (0 - 1)..7} \cup {NotANumber}

\* if not (0 <= day_num <= 6): raise ValueError
InRangeUpTo7(day_num) == 0 <= day_num /\ day_num <= 7
InRange(day_num) == 0 <= day_num /\ day_num <= 6

\* The loop over days in load_config: int(day.strip()) raises on text that is
\* no number, the range test raises on a number outside 0..6
DaysRaise(days) ==
    \E i \in 1..Len(days) : ~days[i].numeric \/ ~InRange(days[i].value)

\* What load_authorized_hosts finds at excel.file_path
RosterFiles == {"hosts", "no_rows", "missing", "unreadable"}

\* load_authorized_hosts(): {} when the file is missing or cannot be read
LoadedRoster(file) == IF file = "hosts" THEN RosterHosts ELSE {}

\* The schedulers, in the order initialize_app starts them
Schedulers == <<"scheduler", "email_scheduler", "garbage_scheduler">>

InitStartup ==
    /\ now = 480
    /\ checkins = {}
    /\ files = [f \in FileNames |-> NoFile]
    /\ pc = [t \in Threads |-> "idle"]
    /\ req = [t \in Threads |-> NoReq]
    /\ last = NoAnswer
    /\ recorded = [k \in Hosts \X Days |-> 0]
    /\ est = NoEst
    /\ outbox = {}
    /\ sched = NoJobs
    /\ conns = {}
    /\ mail = NoMail
    /\ layout = NoLayout
    /\ granted = NoGrants
    /\ \E n \in 1..MaxDaysLen, file \in RosterFiles :
         \E days \in [1..n -> DayTokens] :
            boot = [stage |-> "import", days |-> days, file |-> file,
                    roster |-> {}, roster_loaded |-> FALSE, started |-> 0,
                    fired |-> FALSE, fired_early |-> FALSE,
                    handled |-> FALSE, handled_early |-> FALSE]

\* CONFIG = load_config(), when the module is loaded
LoadConfig ==
    /\ boot.stage = "import"
    /\ boot' = [boot EXCEPT !.stage = IF DaysRaise(boot.days) THEN "dead" ELSE "main"]
    /\ UNCHANGED <<now, checkins, files, pc, req, last, recorded, est, outbox, sched, conns, mail, layout, granted>>

\* if not AUTHORIZED_HOSTS: raise RuntimeError
RosterRaisesNever(roster) == FALSE
RosterRaises(roster) == roster = {}

\* initialize_app(), up to the roster
LoadRoster ==
    /\ boot.stage = "main"
    /\ LET roster == LoadedRoster(boot.file)
       IN  boot' = IF RosterRaises(roster)
                   THEN [boot EXCEPT !.stage = "dead"]
                   ELSE [boot EXCEPT !.stage = "starting", !.roster = roster,
                                     !.roster_loaded = TRUE]
    /\ UNCHANGED <<now, checkins, files, pc, req, last, recorded, est, outbox, sched, conns, mail, layout, granted>>

\* add_job(...) and start() of the next scheduler
StartScheduler ==
    /\ boot.stage = "starting"
    /\ boot.started < Len(Schedulers)
    /\ boot' = [boot EXCEPT !.started = @ + 1]
    /\ UNCHANGED <<now, checkins, files, pc, req, last, recorded, est, outbox, sched, conns, mail, layout, granted>>

\* serve(app, ...), after initialize_app has returned
Serve ==
    /\ boot.stage = "starting"
    /\ boot.started = Len(Schedulers)
    /\ boot' = [boot EXCEPT !.stage = "serving"]
    /\ UNCHANGED <<now, checkins, files, pc, req, last, recorded, est, outbox, sched, conns, mail, layout, granted>>

\* A job of a scheduler that has been started fires
JobFires ==
    /\ boot.stage \in {"starting", "serving"}
    /\ boot.started >= 1
    /\ boot' = [boot EXCEPT !.fired = TRUE,
                            !.fired_early = @ \/ ~boot.roster_loaded]
    /\ UNCHANGED <<now, checkins, files, pc, req, last, recorded, est, outbox, sched, conns, mail, layout, granted>>

\* The server handles a request
HandleRequest ==
    /\ boot.stage = "serving"
    /\ boot' = [boot EXCEPT !.handled = TRUE,
                            !.handled_early = @ \/ ~boot.roster_loaded]
    /\ UNCHANGED <<now, checkins, files, pc, req, last, recorded, est, outbox, sched, conns, mail, layout, granted>>

NextStartup ==
    \/ LoadConfig
    \/ LoadRoster
    \/ StartScheduler
    \/ Serve
    \/ JobFires
    \/ HandleRequest

SpecStartup == InitStartup /\ [][NextStartup]_vars

(* ------------------ the email operation and its transport -------------- *)
\* What the transport does with a request: it takes the message, it answers
\* with an error, or it never answers
TransportBehaviours == {"sent", "failed", "silent"}

\* Who runs send_pdf_email: the email job, or a request
MailCallers == {"job", "request"}

\* SendGridAPIClient(CONFIG['sendgrid_api_key']).send(message): the client is
\* built and called with no timeout
SendHasTimeout == FALSE

\* send_pdf_email up to sendgrid_client.send(message): a missing file or no
\* recipients end it at once with False
MailBegin(caller, report_date, transport) ==
    /\ mail.stage # "sending"
    /\ IF files[PdfFilename(report_date)] = NoFile \/ Recipients = {}
       THEN mail' = [stage |-> "done", caller |-> caller, date |-> report_date,
                     result |-> FALSE]
       ELSE mail' = [stage |-> "sending", caller |-> caller, date |-> report_date,
                     transport |-> transport]
    /\ UNCHANGED <<now, checkins, files, pc, req, last, recorded, est, outbox, sched, conns, boot, layout, granted>>

\* sendgrid_client.send(message) returns or raises, and send_pdf_email ends
MailReturns ==
    /\ mail.stage = "sending"
    /\ mail.transport # "silent" \/ SendHasTimeout
    /\ mail' = [stage |-> "done", caller |-> mail.caller, date |-> mail.date,
                result |-> (mail.transport = "sent")]
    /\ outbox' = IF mail.transport = "sent" THEN outbox \cup {mail.date} ELSE outbox
    /\ UNCHANGED <<now, checkins, files, pc, req, last, recorded, est, sched, conns, boot, layout, granted>>

NextTransport ==
    \/ Tick
    \/ \E t \in CheckinThreads, h \in RosterHosts : CheckinAtomic(t, h)
    \/ \E d \in Days : GeneratePdf(d)
    \/ \E caller \in MailCallers, d \in Days, transport \in TransportBehaviours :
          MailBegin(caller, d, transport)
    \/ MailReturns

SpecTransport == Init /\ [][NextTransport]_vars

(* ------------------------- the renderer's pages ------------------------ *)
MaxLayoutRows == 45              \* 0..MaxLayoutRows present and absent hosts are tried

\* width, height = letter
PageHeight == 792
\* c.drawString(100, height - 40, title); y_position = height - 40 on a new page
TitleDrop == 40
\* y_position -= 20 after a section heading, and between the two sections
HeadingStep == 20
\* y_position -= 15 after the column header and after every row
RowStep == 15
\* if y_position < 100, before the heading of the absent section
SectionMargin == 100

\* if y_position < 50, before every row
BelowMarginNever(y_position) == FALSE
BelowMargin(y_position) == y_position < 50

\* A page that carries nothing yet
BlankPage == [title |-> 0, heading |-> [present |-> 0, absent |-> 0],
              columns |-> [present |-> 0, absent |-> 0]]

\* c.showPage() and the title at the top of the new page
TitledPage == [BlankPage EXCEPT !.title = 1]

\* The section heading and the column header, drawn on a page
WithHeader(on_page, section) ==
    [on_page EXCEPT !.heading[section] = @ + 1, !.columns[section] = @ + 1]

NoRow == [section |-> "none"]

InitLayout ==
    /\ now = 480
    /\ checkins = {}
    /\ files = [f \in FileNames |-> NoFile]
    /\ pc = [t \in Threads |-> "idle"]
    /\ req = [t \in Threads |-> NoReq]
    /\ last = NoAnswer
    /\ recorded = [k \in Hosts \X Days |-> 0]
    /\ est = NoEst
    /\ outbox = {}
    /\ sched = NoJobs
    /\ conns = {}
    /\ boot = NoBoot
    /\ mail = NoMail
    /\ granted = NoGrants
    /\ \E present \in 0..MaxLayoutRows, absent \in 0..MaxLayoutRows :
          layout = [stage |-> "start", present |-> present, absent |-> absent,
                    present_left |-> present, absent_left |-> absent,
                    page |-> 1, y_position |-> PageHeight, on_page |-> BlankPage,
                    row |-> NoRow]

\* The title of the first page, and the header of the present section when
\* there are check-ins
LayoutStart ==
    /\ layout.stage = "start"
    /\ layout' = IF layout.present > 0
                 THEN [layout EXCEPT !.stage = "present",
                                     !.on_page = WithHeader(TitledPage, "present"),
                                     !.y_position = PageHeight - 80 - HeadingStep - RowStep]
                 ELSE [layout EXCEPT !.stage = "absent_header",
                                     !.on_page = TitledPage,
                                     !.y_position = PageHeight - 80]
    /\ UNCHANGED <<now, checkins, files, pc, req, last, recorded, est, outbox, sched, conns, boot, mail, granted>>

\* One turn of the loop of a section: the page break when the pen is below the
\* margin, then the row
RowTurn(section) ==
    LET break == BelowMargin(layout.y_position)
        y_row == IF break
                 THEN PageHeight - TitleDrop - 40 - HeadingStep - RowStep
                 ELSE layout.y_position
        on_page == IF break THEN WithHeader(TitledPage, section) ELSE layout.on_page
        page == IF break THEN layout.page + 1 ELSE layout.page
    IN  [layout EXCEPT !.page = page, !.on_page = on_page,
                       !.y_position = y_row - RowStep,
                       !.row = [section |-> section, y |-> y_row, page |-> page,
                                title |-> on_page.title,
                                heading |-> on_page.heading[section],
                                columns |-> on_page.columns[section]]]

\* for hostname, times in checked_in.items(), one turn; after the last one,
\* y_position -= 20 when there are absent hosts
PresentTurn ==
    /\ layout.stage = "present"
    /\ layout.present_left > 0
    /\ LET drawn == [RowTurn("present") EXCEPT !.present_left = @ - 1]
       IN  layout' = IF drawn.present_left > 0 THEN drawn
                     ELSE IF layout.absent > 0
                     THEN [drawn EXCEPT !.stage = "absent_header",
                                        !.y_position = @ - HeadingStep]
                     ELSE [drawn EXCEPT !.stage = "save"]
    /\ UNCHANGED <<now, checkins, files, pc, req, last, recorded, est, outbox, sched, conns, boot, mail, granted>>

\* if absent_hosts: the page break when less than SectionMargin is left, the
\* heading and the column header of the absent section
AbsentHeader ==
    /\ layout.stage = "absent_header"
    /\ layout' =
         IF layout.absent = 0 THEN [layout EXCEPT !.stage = "save"]
         ELSE LET break == layout.y_position < SectionMargin
                  y_heading == IF break THEN PageHeight - TitleDrop - 40
                               ELSE layout.y_position
                  on_page == IF break THEN TitledPage ELSE layout.on_page
              IN  [layout EXCEPT !.stage = "absent",
                                 !.page = IF break THEN @ + 1 ELSE @,
                                 !.on_page = WithHeader(on_page, "absent"),
                                 !.y_position = y_heading - HeadingStep - RowStep]
    /\ UNCHANGED <<now, checkins, files, pc, req, last, recorded, est, outbox, sched, conns, boot, mail, granted>>

\* for hostname in absent_hosts, one turn
AbsentTurn ==
    /\ layout.stage = "absent"
    /\ layout.absent_left > 0
    /\ LET drawn == [RowTurn("absent") EXCEPT !.absent_left = @ - 1]
       IN  layout' = IF drawn.absent_left > 0 THEN drawn
                     ELSE [drawn EXCEPT !.stage = "save"]
    /\ UNCHANGED <<now, checkins, files, pc, req, last, recorded, est, outbox, sched, conns, boot, mail, granted>>

NextLayout ==
    \/ LayoutStart
    \/ PresentTurn
    \/ AbsentHeader
    \/ AbsentTurn

SpecLayout == InitLayout /\ [][NextLayout]_vars

(* ------------------------- a render that fails ------------------------- *)
\* Where generate_pdf_for_date raises: while it draws, before c.save(), or
\* inside c.save(), which opens the file for writing and then writes it
RenderFaults == {"draw", "save"}

\* What c.save() leaves under the file's name when it raises: the file has
\* been opened for writing, the document is not, or not all, in it
PartialFile(d) == [kind |-> "partial", date |-> d]

\* The answer to a render that raised, with the place where it raised
RenderErrorAnswer(d, fault) ==
    [op |-> "render", code |-> 500, date |-> d, again |-> FALSE, render_error |-> fault]

\* GET /generate_pdf?date=d when the render raises: the except clause logs
\* and returns None, and nothing is done about the file
GeneratePdfRenderError(d, fault) ==
    /\ files' = IF fault = "save"
                THEN [files EXCEPT ![PdfFilename(d)] = PartialFile(d)]
                ELSE files
    /\ last' = RenderErrorAnswer(d, fault)
    /\ UNCHANGED <<now, checkins, pc, req, recorded, est, outbox, sched, conns, boot, mail, layout, granted>>

NextRenderFaults ==
    \/ Tick
    \/ \E t \in CheckinThreads, h \in RosterHosts : CheckinAtomic(t, h)
    \/ \E d \in Days : GeneratePdf(d)
    \/ \E d \in Days, fault \in RenderFaults : GeneratePdfRenderError(d, fault)

SpecRenderFaults == Init /\ [][NextRenderFaults]_vars

(* -------------- check-ins and passes, counted over all time ------------ *)
\* The server with each request served whole, and every 200 answer to a
\* check-in counted per (host, date), for as long as the server runs.
MaxGrants == 2

\* POST /checkin: checkin() and save_checkin(), with no other step in between
CheckinCounted(h) ==
    /\ IF h = NoHost
       THEN /\ last' = CheckinAnswer(400, FALSE)
            /\ UNCHANGED <<checkins, recorded, granted>>
       ELSE IF Unauthorized(h)
       THEN /\ last' = CheckinAnswer(403, FALSE)
            /\ UNCHANGED <<checkins, recorded, granted>>
       ELSE \E random_minutes \in JitterSample :
              LET today == get_today_in_romania
                  checkin_dt == get_current_time_in_romania
                  checkout_time == EstimateCheckout(checkin_dt, Norma(h), random_minutes)
                  fresh == RowsOf(checkins, h, today) = {}
                  after == InsertOrIgnore(checkins, Row(h, checkin_dt, today, checkout_time))
              IN  /\ checkins' = after
                  /\ IF total_changes(checkins, after) > 0
                     THEN /\ granted[<<h, today>>] < MaxGrants
                          /\ last' = CheckinAnswer(200, fresh)
                          /\ recorded' = [recorded EXCEPT ![<<h, today>>] = @ + 1]
                          /\ granted' = [granted EXCEPT ![<<h, today>>] = @ + 1]
                     ELSE /\ last' = CheckinAnswer(208, fresh)
                          /\ UNCHANGED <<recorded, granted>>
    /\ UNCHANGED <<now, files, pc, req, est, outbox, sched, conns, boot, mail, layout>>

\* GET /run_garbage_collector: garbage_collector(), with no other step in
\* between
PassCounted ==
    /\ LET dates_to_delete == DatesToDelete(checkins)
           victims == SeqToSet(dates_to_delete)
       IN  /\ checkins' = {row \in checkins : row.date \notin victims}
           /\ files' = [f \in FileNames |->
                           IF \E d \in victims : f = GcRemovedPath(d)
                           THEN NoFile ELSE files[f]]
           /\ recorded' = [k \in Hosts \X Days |->
                              IF k[2] \in victims THEN 0 ELSE recorded[k]]
           /\ last' = GcAnswer(200, dates_to_delete)
    /\ UNCHANGED <<now, pc, req, est, outbox, sched, conns, boot, mail, layout, granted>>

NextGrants ==
    \/ Tick
    \/ \E h \in Hosts \cup {NoHost} : CheckinCounted(h)
    \/ \E d \in Days : GeneratePdf(d)
    \/ PassCounted

SpecGrants == Init /\ [][NextGrants]_vars

(* ============================== claims ================================= *)
Keys == Hosts \X Days
RowCount(table, k) == Cardinality(RowsOf(table, k[1], k[2]))

\* A thread ends save_checkin in this step
SaveEnds(t) == pc[t] = "save" /\ pc'[t] = "idle"
\* A thread ends a collection pass with its DELETE statements in this step
PassEnds(t) == pc[t] = "gc_delete" /\ pc'[t] = "idle"

\* C1: in every reachable state the ledger holds at most one row per
\* (hostname, date), and every row lies on a simulated day.
C1_OneRowPerHostAndDay ==
    /\ \A k \in Keys : RowCount(checkins, k) <= 1
    /\ \A r \in checkins : r.date \in Days

\* C1 witness: a duplicate check-in has just been answered and the ledger
\* holds rows of several keys.
C1_Witness ==
    /\ last.op = "checkin" /\ last.code = 208
    /\ Cardinality(checkins) >= 2

\* C2: a save_checkin that finds a row for its host and today is answered
\* 208 with status "info", and leaves the ledger as it was: one row for the
\* key, the row of the first check-in.
C2_DuplicateIsNoOp ==
    [][\A t \in CheckinThreads :
          (SaveEnds(t) /\ RowsOf(checkins, req[t].hostname, get_today_in_romania) # {})
          => /\ last'.op = "checkin" /\ last'.code = 208 /\ last'.status = "info"
             /\ checkins' = checkins
             /\ RowCount(checkins', <<req[t].hostname, get_today_in_romania>>) = 1]_vars

\* C2 witness: a request that came in when the row already existed has been
\* answered 208.
C2_Witness ==
    /\ last.op = "checkin" /\ last.code = 208 /\ ~last.fresh
    /\ checkins # {}

\* C3: a check-in request for a host that is not on the roster is answered
\* 403 in the same step, the ledger after it equals the ledger before it, and
\* no row of the ledger names a host outside the roster.
C3_UnknownHostRejected ==
    [][/\ \A t \in CheckinThreads, h \in Hosts \ RosterHosts :
            CheckinReceive(t, h)
            => /\ last'.op = "checkin" /\ last'.code = 403
               /\ pc'[t] = "idle"
               /\ checkins' = checkins
       /\ \A r \in checkins' : r.hostname \in RosterHosts]_vars

\* C3 witness: a 403 has been answered while the ledger holds rows.
C3_Witness ==
    /\ last.op = "checkin" /\ last.code = 403
    /\ checkins # {}

\* C4: counting the check-ins of a host and a date since that date was last
\* pruned, in every interleaving: exactly one is answered 200 when the key has
\* a row and none otherwise, there is never more than one row for the key, and
\* every save_checkin that ends is answered 200 or 208.
C4_OneRecordedPerKey ==
    [][/\ \A k \in Keys :
            /\ recorded'[k] <= 1
            /\ recorded'[k] = RowCount(checkins', k)
       /\ \A t \in CheckinThreads :
            SaveEnds(t) => last'.op = "checkin" /\ last'.code \in {200, 208}]_vars

\* C4 witness: a request that came in when its key had no row was answered
\* 208, because a concurrent request for the key was recorded in between.
C4_Witness ==
    /\ last.op = "checkin" /\ last.code = 208 /\ last.fresh
    /\ \E k \in Keys : recorded[k] = 1

\* C5: the checkout is checkin + m minutes with
\* norma*60 - 20 <= m <= norma*60 + 40, and hours_to_add, minutes_to_add split
\* m with 0 <= minutes_to_add < 60 and hours_to_add*60 + minutes_to_add = m.
C5_CheckoutWindow ==
    est.stage = "done" =>
        LET m == est.checkout_dt - est.checkin_dt
        IN  /\ est.norma * 60 - 20 <= m
            /\ m <= est.norma * 60 + 40
            /\ m = est.norma * 60 + est.random_minutes
            /\ 0 <= est.minutes_to_add /\ est.minutes_to_add < 60
            /\ est.hours_to_add * 60 + est.minutes_to_add = m

\* C5 witness: an estimate with a negative jitter that takes the total below
\* a whole hour boundary.
C5_Witness ==
    /\ est.stage = "done"
    /\ est.random_minutes < 0
    /\ est.hours_to_add = est.norma - 1
    /\ est.minutes_to_add > 0

\* C6: a render of date d writes, for every host, one present row when the
\* ledger has a row for the host and d and none otherwise, and one absent row
\* when the host is on the roster with no row for d and none otherwise; so no
\* host is in both sections and every roster host is in exactly one.
RowsNaming(section, h) == {i \in 1..Len(section) : section[i].hostname = h}

C6_RenderPartitionsRoster ==
    [][\A d \in Days :
          GeneratePdf(d) =>
            LET doc == files'[PdfFilename(d)]
            IN  /\ doc.kind = "pdf" /\ doc.date = d
                /\ \A h \in Hosts :
                     /\ Cardinality(RowsNaming(doc.present, h))
                          = (IF RowsOf(checkins, h, d) # {} THEN 1 ELSE 0)
                     /\ Cardinality(RowsNaming(doc.absent, h))
                          = (IF h \in RosterHosts /\ RowsOf(checkins, h, d) = {}
                             THEN 1 ELSE 0)
                /\ \A h \in RosterHosts :
                     Cardinality(RowsNaming(doc.present, h))
                       + Cardinality(RowsNaming(doc.absent, h)) = 1]_vars

\* C6 witness: a report has just been written with one host present and one
\* host absent.
C6_Witness ==
    /\ last.op = "render"
    /\ \E d \in Days :
         /\ files[PdfFilename(d)] # NoFile
         /\ Len(files[PdfFilename(d)].present) = 1
         /\ Len(files[PdfFilename(d)].absent) = 1

RECURSIVE SumTo(_, _)
\* The running total of the walk after its first k dates
SumTo(counts, k) == IF k = 0 THEN 0 ELSE SumTo(counts, k - 1) + counts[k]

\* C7 (as claimed): a pass that found more than MAX_ROWS rows deletes the
\* shortest prefix of its date list whose running total meets or exceeds the
\* excess: the total of the deleted dates is >= excess and no shorter prefix
\* has a total >= excess.
C7_ShortestPrefixMeetingExcess ==
    [][\A t \in GcThreads :
          (PassEnds(t) /\ req[t].dates_to_delete # <<>>)
          => LET r == req[t]
                 n == Len(r.dates_to_delete)
             IN  /\ r.dates_to_delete = SubSeq(r.dates, 1, n)
                 /\ SumTo(r.counts, n) >= r.rows_to_delete
                 /\ \A k \in 1..(n - 1) : SumTo(r.counts, k) < r.rows_to_delete]_vars

\* C8: a pass that counts at most MAX_ROWS rows ends at once and leaves every
\* ledger row and every file as it was; and no step removes a ledger row
\* except the DELETE of a pass that counted more than MAX_ROWS rows.
C8_WithinBudgetDeletesNothing ==
    [][/\ \A t \in GcThreads :
            (GcCount(t) /\ Cardinality(checkins) <= MAX_ROWS)
            => /\ checkins' = checkins
               /\ files' = files
               /\ pc'[t] = "idle"
               /\ last'.op = "gc" /\ last'.dates_deleted = 0
       /\ (checkins \ checkins' # {})
            => \E t \in GcThreads : PassEnds(t) /\ req[t].count > MAX_ROWS]_vars

\* C8 witness: a pass has just ended without deleting, on a ledger that
\* fills the budget exactly, with a report in the output directory.
C8_Witness ==
    /\ last.op = "gc" /\ last.dates_deleted = 0
    /\ Cardinality(checkins) = MAX_ROWS
    /\ \E d \in Days : files[PdfFilename(d)] # NoFile

\* C9: the dates a pass deletes are a prefix of the ascending list of distinct
\* dates it read, the dates that lose rows are the oldest dates of the ledger,
\* and a date keeps all its rows or none.
C9_WholeOldestDates ==
    [][\A t \in GcThreads :
          PassEnds(t)
          => LET r == req[t]
                 before == {row.date : row \in checkins}
                 removed == {d \in before : RowsOfDate(checkins', d) # RowsOfDate(checkins, d)}
             IN  /\ r.dates_to_delete = SubSeq(r.dates, 1, Len(r.dates_to_delete))
                 /\ \A i, j \in 1..Len(r.dates) : i < j => r.dates[i] < r.dates[j]
                 /\ removed = SeqToSet(r.dates_to_delete) \cap before
                 /\ \A d \in removed, e \in before : e < d => e \in removed
                 /\ \A d \in before :
                      \/ RowsOfDate(checkins', d) = RowsOfDate(checkins, d)
                      \/ RowsOfDate(checkins', d) = {}
                 /\ checkins' \subseteq checkins]_vars

\* C9 witness: a pass has just deleted dates and left rows of later dates.
C9_Witness ==
    /\ last.op = "gc" /\ last.dates_deleted >= 1
    /\ checkins # {}

\* C10 (as claimed): after a pass that prunes date d, the file render(d)
\* wrote, PdfFilename(d), does not exist.
C10_PrunedReportIsRemoved ==
    [][\A t \in GcThreads :
          PassEnds(t)
          => \A d \in SeqToSet(req[t].dates_to_delete) :
                files'[PdfFilename(d)] = NoFile]_vars

\* C11 (as claimed): a firing of the retention job on a ledger with more than
\* MAX_ROWS rows has the effect of a requested pass on that ledger: it deletes
\* the rows of the dates such a pass deletes, the oldest date among them.
C11_RetentionJobCollects ==
    [][(RetentionJob /\ Cardinality(checkins) > MAX_ROWS)
          => LET victims == SeqToSet(DatesToDelete(checkins))
             IN  /\ victims # {}
                 /\ checkins' = {row \in checkins : row.date \notin victims}]_vars

\* C12: a firing of the report job on day t writes the report of day t - 1,
\* drawn from the ledger's rows of day t - 1, and leaves every other file, the
\* file of day t among them, as it was.
C12_ReportJobRendersYesterday ==
    [][ReportJob
          => LET today == get_today_in_romania
                 written == PdfFilename(today - 1)
             IN  /\ files'[written] = RenderDocument(checkins, today - 1)
                 /\ files'[written].date = today - 1
                 /\ \A f \in FileNames \ {written} : files'[f] = files[f]]_vars

\* C12 witness: the report job has just fired on a day with check-ins; the
\* report of the day before lists a host as present and there is no report of
\* the day itself.
C12_Witness ==
    /\ last = JobAnswer("report", TRUE)
    /\ sched.report = get_today_in_romania
    /\ RowsOfDate(checkins, get_today_in_romania) # {}
    /\ files[PdfFilename(get_today_in_romania - 1)] # NoFile
    /\ Len(files[PdfFilename(get_today_in_romania - 1)].present) >= 1
    /\ files[PdfFilename(get_today_in_romania)] = NoFile

C14_JobsInEitherOrder ==
    [][/\ RetentionJob
            => /\ RenderDocument(checkins', DefaultReportDate)
                    = RenderDocument(checkins, DefaultReportDate)
               /\ files'[PdfFilename(DefaultReportDate)]
                    = files[PdfFilename(DefaultReportDate)]
       /\ ReportJob => checkins' = checkins]_vars

\* C14 witness: both jobs have fired today, the retention job last, on a
\* ledger over the row budget, and the report of yesterday lists a host as
\* present.
C14_Witness ==
    /\ last.op = "job" /\ last.job = "gc"
    /\ sched.gc = get_today_in_romania /\ sched.report = get_today_in_romania
    /\ Cardinality(checkins) > MAX_ROWS
    /\ files[PdfFilename(DefaultReportDate)] # NoFile
    /\ Len(files[PdfFilename(DefaultReportDate)].present) >= 1

\* The email operation on this date cannot succeed with this transport
EmailMustFail(report_date, transport) ==
    files[PdfFilename(report_date)] = NoFile \/ transport = "failed"

\* C15: an email request whose date has no report file, or whose transport
\* send fails, is answered 500 and reports nothing sent; a firing of the email
\* job in the same case reports failure; and in both the set of delivered
\* reports, every file and every ledger row are as they were.
C15_EmailFailureIsReported ==
    [][/\ \A arg \in DateArgs, transport \in TransportOutcomes :
            (/\ SendPdfEmail(arg, transport)
             /\ ~arg.given \/ arg.valid
             /\ EmailMustFail(IF arg.given THEN arg.date ELSE get_today_in_romania - 1,
                              transport))
            => /\ last'.op = "email" /\ last'.code = 500 /\ ~last'.sent
               /\ outbox' = outbox /\ files' = files /\ checkins' = checkins
       /\ \A transport \in TransportOutcomes :
            (EmailJob(transport) /\ EmailMustFail(get_today_in_romania - 1, transport))
            => /\ last'.op = "job" /\ last'.job = "email" /\ ~last'.ok
               /\ outbox' = outbox /\ files' = files /\ checkins' = checkins]_vars

\* C15 witness: an email request for a date whose report exists has been
\* answered 500, the transport having failed, and no report has been delivered.
C15_Witness ==
    /\ last.op = "email" /\ last.code = 500
    /\ files[PdfFilename(last.date)] # NoFile
    /\ outbox = {}
    /\ checkins # {}

\* C16 (as claimed): the firing of the email job that follows a failed
\* scheduled email of the report of date d tries the report of date d.
C16_NextFiringRetries ==
    [][\A transport \in TransportOutcomes :
          (EmailJob(transport) /\ sched.failed # {})
          => last'.date \in sched.failed]_vars

\* C16 (amended): the firing of the email job that follows a failed scheduled
\* email of the report of date d tries the report of the day before its own
\* day, a date later than d, and delivers no report of date d.
C16_NextFiringTakesALaterDate ==
    [][\A transport \in TransportOutcomes :
          (EmailJob(transport) /\ sched.failed # {})
          => /\ last'.date = get_today_in_romania - 1
             /\ \A d \in sched.failed :
                  /\ last'.date > d
                  /\ d \notin outbox => d \notin outbox']_vars

\* C16 witness: the scheduled email of the report of a date failed, the next
\* firing has delivered the report of a later date, and the report of the
\* first date has not been delivered.
C16_Witness ==
    /\ last.op = "job" /\ last.job = "email" /\ last.ok
    /\ sched.failed_before # {}
    /\ \A d \in sched.failed_before : d < last.date /\ d \notin outbox
    /\ last.date \in outbox

\* C17: in every step, a key that has a row before and after the step has the
\* same row, with the same checkin and checkout; a step that adds rows is the
\* end of a save_checkin, adds one row, and adds it for a key that had none;
\* a step that removes rows is the DELETE of a collection pass.
C17_RowsAreImmutable ==
    [][/\ \A k \in Keys :
            (RowsOf(checkins, k[1], k[2]) # {} /\ RowsOf(checkins', k[1], k[2]) # {})
            => RowsOf(checkins', k[1], k[2]) = RowsOf(checkins, k[1], k[2])
       /\ (checkins' \ checkins # {})
            => /\ \E t \in CheckinThreads : SaveEnds(t)
               /\ Cardinality(checkins' \ checkins) = 1
               /\ \A r \in checkins' \ checkins : RowsOf(checkins, r.hostname, r.date) = {}
       /\ (checkins \ checkins' # {})
            => \E t \in GcThreads : PassEnds(t)]_vars

\* C17 witness: a check-in for a key whose row carries another checkin time
\* than the request's has been answered 208, and the row is as it was.
C17_Witness ==
    /\ last.op = "checkin" /\ last.code = 208 /\ ~last.fresh
    /\ \E r \in checkins :
         /\ r.date = get_today_in_romania
         /\ r.checkin_time # get_current_time_in_romania

\* The reports in the output directory that are reports of date d
ArtifactsOf(dir, d) == {f \in FileNames : dir[f] # NoFile /\ dir[f].date = d}

C19_StoreErrorIs500 ==
    "store_error" \in DOMAIN last => last.code = 500

\* hostname -> times, as the rows of a table give it for a date
MappingOf(table, d) ==
    {<<r.hostname, r.checkin_time, r.checkout_time>> : r \in RowsOfDate(table, d)}

\* C20: whatever a pass has deleted and not committed, and whatever check-ins
\* came before, the mapping /status answers with is the mapping of the
\* ledger's rows of today at the step of the read, the present rows of a
\* render of date d are the ledger's rows of d at the step of the read, one
\* for each, and in every step a date keeps all its rows or loses them all.
C20_ReadsAreSnapshots ==
    [][/\ Status
            => {<<h, last'.checkins[h].checkin_time, last'.checkins[h].checkout_time>> :
                    h \in DOMAIN last'.checkins}
                 = MappingOf(checkins, get_today_in_romania)
       /\ \A d \in Days :
            GeneratePdf(d)
            => LET doc == files'[PdfFilename(d)]
               IN  /\ {<<row.hostname, row.checkin, row.checkout>> :
                          row \in SeqToSet(doc.present)}
                        = {<<r.hostname, TimeOnly(r.checkin_time), TimeOnly(r.checkout_time)>> :
                              r \in RowsOfDate(checkins, d)}
                   /\ Len(doc.present) = Cardinality(RowsOfDate(checkins, d))
       /\ \A d \in Days :
            \/ RowsOfDate(checkins', d) = {}
            \/ RowsOfDate(checkins, d) \subseteq RowsOfDate(checkins', d)]_vars

\* C20 witness: a report of a date has just been rendered with a host
\* present while a pass has deleted that date and not yet committed.
C20_Witness ==
    /\ last.op = "render"
    /\ \E t \in GcThreads :
         /\ pc[t] = "gc_delete"
         /\ last.date \in req[t].uncommitted
    /\ Len(files[PdfFilename(last.date)].present) >= 1

\* C21 (as claimed): no connection is open whose operation has completed.
C21_ReleasedOnCompletion ==
    \A c \in conns : ~c.completed

\* C22: with a weekday list that has an entry outside 0..6, the load of the
\* configuration raises: the process goes from the import to its end, no
\* scheduler is started, no job fires and no request is handled.
C22_BadWeekdayIsFatal ==
    (\E i \in 1..Len(boot.days) :
        boot.days[i].numeric /\ (boot.days[i].value < 0 \/ boot.days[i].value > 6))
    => /\ boot.stage \in {"import", "dead"}
       /\ boot.started = 0
       /\ ~boot.roster_loaded
       /\ ~boot.fired /\ ~boot.handled

\* C22 witness: the load has raised on a list whose first entry is a valid
\* weekday and whose second entry is 7, with a roster file that would load.
C22_Witness ==
    /\ boot.stage = "dead"
    /\ Len(boot.days) = 2
    /\ boot.days[1] = DayToken(6) /\ boot.days[2] = DayToken(7)
    /\ boot.file = "hosts"

\* C27: a scheduler is started, a job fires and a request is handled only
\* after the roster has been loaded and found not empty, the server serves only
\* after the three schedulers have been started, and with a roster file that
\* is missing, unreadable or without rows the process ends with no scheduler
\* started.
C27_RosterThenSchedulersThenServe ==
    /\ (boot.started >= 1 \/ boot.fired \/ boot.handled \/ boot.stage = "serving")
          => boot.roster_loaded /\ boot.roster # {}
    /\ ~boot.fired_early /\ ~boot.handled_early
    /\ (boot.stage = "serving" \/ boot.handled) => boot.started = Len(Schedulers)
    /\ boot.file # "hosts"
          => /\ boot.started = 0
             /\ boot.stage \in {"import", "main", "dead"}

\* C27 witness: the server serves, a job has fired and a request has been
\* handled, with the roster loaded.
C27_Witness ==
    /\ boot.stage = "serving"
    /\ boot.fired /\ boot.handled
    /\ boot.roster = RosterHosts

\* C23 (as claimed): an email operation that waits for the transport can
\* always end: the step in which send returns or raises is enabled.
C23_EmailAlwaysEnds ==
    mail.stage = "sending" => ENABLED MailReturns

\* A pass is left by an exception in this step
AbortEnds(t) == pc[t] = "gc_delete" /\ pc'[t] = "idle" /\ last'.code = 500

C26_RowsAboveMarginUnderHeaders ==
    layout.row # NoRow
    => /\ layout.row.y >= 50
       /\ layout.row.y <= 792 - 80 - 20 - 15
       /\ layout.row.title = 1
       /\ layout.row.heading = 1
       /\ layout.row.columns = 1
       /\ layout.row.page <= layout.page

\* C26 witness: the last absent row of a report with both sections over a
\* page long has been drawn, on a page that the absent section's own loop
\* started.
C26_Witness ==
    /\ layout.stage = "save"
    /\ layout.present > 42 /\ layout.absent > 42
    /\ layout.row.section = "absent"
    /\ layout.row.page >= 3
    /\ layout.on_page.heading.present = 0

\* C25 (as claimed): a render that failed has been answered 500, and the
\* file of every date is absent or a complete report, never a partial one.
C25_NoPartialArtifact ==
    /\ "render_error" \in DOMAIN last => last.code = 500
    /\ \A d \in Days : files[PdfFilename(d)].kind \in {"none", "pdf"}

\* C28: a pass that counted more than MAX_ROWS rows and ends on a ledger that
\* no check-in has added a row to since the count leaves at most MAX_ROWS
\* rows, and fewer rows than it found.
C28_PassReachesBudget ==
    [][\A t \in GcThreads :
          (/\ PassEnds(t)
           /\ req[t].count > MAX_ROWS
           /\ Cardinality(checkins) = req[t].count)
          => /\ Cardinality(checkins') <= MAX_ROWS
             /\ Cardinality(checkins') < Cardinality(checkins)]_vars

\* C28 witness: a pass has just deleted one date of two, no check-in has come
\* since, and the ledger holds rows, within the budget.
C28_Witness ==
    /\ last.op = "gc" /\ last.dates_deleted = 1
    /\ checkins # {}
    /\ Cardinality(checkins) <= MAX_ROWS
    /\ \A t \in CheckinThreads : pc[t] = "idle"

\* C29: every ledger row's calendar date is the date its checkin timestamp
\* falls on. The handler reads the check-in instant and save_checkin reads
\* today's date separately; midnight can pass between the two reads.
C29_DateIsTheDateOfTheTimestamp ==
    \A r \in checkins : r.date = DateOf(r.checkin_time)

====
